---- MODULE Spec2Model ----
(***************************************************************************)
(* The auction/bidding engine and the wallet settlement of the art-auction *)
(* website                                                                 *)
(* (src/db_operations.py, class DatabaseManager), as a state machine.      *)
(*                                                                         *)
(* The store is MySQL/InnoDB and every operation opens its own connection  *)
(* with autocommit off (db_operations.py:11-27).  An operation therefore   *)
(* runs as one transaction of two visible steps:                           *)
(*   - its SELECTs, which read the committed rows (a consistent,           *)
(*     non-locking read: no SELECT in the source says FOR UPDATE), together *)
(*     with the checks and early returns the code makes on what it read;   *)
(*   - its INSERT/UPDATE statements and conn.commit(), which become        *)
(*     visible to the other connections together, at the commit.           *)
(* Between the two steps any other connection may read and commit.  The    *)
(* transactions that have read and not yet committed are the bag           *)
(* `inflight`; each remembers what it read, as the Python locals do.       *)
(*                                                                         *)
(* Money is counted in whole currency units; NULL is 0 (ids and prices).    *)
(***************************************************************************)
EXTENDS Integers, Sequences, FiniteSets, Bags, TLC

\* ---------------------------------------------------------------- bounds
NumUsers == 3          \* rows of the users table: user_id 1..NumUsers
NumSellers == 1        \* users 1..NumSellers create auctions
MaxAuctions == 2       \* create_auction is offered until this many rows exist
MaxBids == 2           \* place_bid is offered until this many bid rows exist
MaxTime == 1           \* the clock NOW() runs 0..MaxTime (in days)
MaxInflight == 2       \* connections that may be open mid-operation at once
MaxWon == 2            \* closing operations are offered until this many 'won' rows exist
StartingBid == 100     \* the starting_bid the sellers submit
TopUp == 110           \* the amount the users top their wallets up by
MaxTopUps == 2         \* add_to_wallet is offered until this many top_up rows exist
MaxPayments == 2       \* payments are offered until this many have notified a seller
PayAuctions == 1       \* auctions created where the payments are explored
CashOut == 10          \* the amount the users cash out
MaxCashOuts == 2       \* deduct_from_wallet is offered until this many cash_out rows exist

\* ------------------------------------------------------ program constants
MINIMUM_BID_INCREMENT == 5

Users == 1..NumUsers
Sellers == 1..NumSellers
AuctionIds == 1..MaxAuctions
BidOffsets == {-5, 0, 5, 10}
BidAmounts == {StartingBid + d : d \in BidOffsets}
Durations == {1}
TopUpAmounts == {TopUp}
CashOutAmounts == {CashOut}
MIN_TOPUP == 10        \* wallet_topup: amount < 10 is turned down
MAX_TOPUP == 1000000   \* wallet_topup: amount > 1000000 is turned down
\* What a user may submit to wallet_topup; 0 stands for a missing amount too.
TopUpInputs == {-5, 0, MIN_TOPUP - 1, MIN_TOPUP, TopUp, MAX_TOPUP, MAX_TOPUP + 1}
NULL == 0

VARIABLES
    auctions,        \* table auctions: a sequence, auction_id = index (AUTO_INCREMENT)
    bids,            \* table bids: a sequence in bid_id order
    notifications,   \* table notifications: a bag of [user_id, type, ref]
    now,             \* the clock read by NOW() and datetime.now()
    inflight,        \* bag of transactions that have read and not yet committed
    response,        \* what the operation that has just returned hands its caller
    wallet_balance,  \* column users.wallet_balance, by user_id
    wallet_transactions   \* table wallet_transactions: a sequence in transaction_id order

vars == <<auctions, bids, notifications, now, inflight, response,
          wallet_balance, wallet_transactions>>

\* The wallet columns and table, which the auction operations do not touch.
wallet == <<wallet_balance, wallet_transactions>>

\* ------------------------------------------------------------- helpers
Max(S) == CHOOSE x \in S : \A y \in S : y <= x

Exists(a) == a \in 1..Len(auctions)

BidsOn(a) == {i \in 1..Len(bids) : bids[i].auction_id = a}

\* ORDER BY bid_amount DESC LIMIT 1: the rows that may come first (ties are
\* in no defined order), as bid_ids; empty when the auction has no bid.
HighestBids(a) ==
    {i \in BidsOn(a) : \A j \in BidsOn(a) : bids[j].bid_amount <= bids[i].bid_amount}

Notification(user_id, type, ref) == [user_id |-> user_id, type |-> type, ref |-> ref]

\* create_notification: one INSERT on a connection of its own, committed at once.
create_notification(bag, user_id, type, ref) ==
    bag (+) SetToBag({Notification(user_id, type, ref)})

Result(op, ok, err, min_bid) == [op |-> op, ok |-> ok, err |-> err, min_bid |-> min_bid]

\* No call is returning: the caller of the last one has its result.
NoResponse == Result("none", TRUE, "", 0)

Ready == response = NoResponse

Txn(op, auction_id, user_id, amount, previous_bidder, expired) ==
    [op |-> op, auction_id |-> auction_id, user_id |-> user_id, amount |-> amount,
     previous_bidder |-> previous_bidder, expired |-> expired]

NumInflight == BagCardinality(inflight)

\* Rows the operations in flight are still to insert, counted with the rows
\* there are, so that the tables stay within MaxBids and MaxWon.
PendingBids ==
    BagCardinality([t \in {x \in BagToSet(inflight) : x.op = "place_bid"} |->
                       CopiesIn(t, inflight)])

\* The 'won' notifications of winners; a payment sends one to the seller.
NumWon ==
    BagCardinality([n \in {x \in BagToSet(notifications) :
                              x.type = "won" /\ x.user_id # auctions[x.ref].seller_id} |->
                       CopiesIn(n, notifications)])

PendingWon ==
    BagCardinality([t \in {x \in BagToSet(inflight) :
                              x.op \in {"sell_now", "end_auction_immediately"}} |->
                       CopiesIn(t, inflight)])
    + BagCardinality([t \in {x \in BagToSet(inflight) :
                                /\ x.op = "close_expired_auctions"
                                /\ \E a \in DOMAIN x.expired : x.expired[a] # 0} |->
                         CopiesIn(t, inflight)
                             * Cardinality({a \in DOMAIN t.expired : t.expired[a] # 0})])

RoomForWon(k) == NumWon + PendingWon + k <= MaxWon

\* A connection goes mid-way with what it has read; it commits and is closed.
Open(t) == inflight' = inflight (+) SetToBag({t})
Close(t) == inflight' = inflight (-) SetToBag({t})

\* ------------------------------------------------------------------ Init
Init ==
    /\ auctions = <<>>
    /\ bids = <<>>
    /\ notifications = EmptyBag
    /\ now = 0
    /\ inflight = EmptyBag
    /\ response = NoResponse
    /\ wallet_balance = [u \in Users |-> 0]
    /\ wallet_transactions = <<>>

\* --------------------------------------------------------- create_auction
\* NewAuctionNotifications that does not leave out the seller.
NewAuctionNotifications_All(seller_id, auction_id) ==
    SetToBag({Notification(u, "new_auction", auction_id) : u \in Users})

\* INSERT the row with current_bid = starting_bid, commit, then one
\* 'new_auction' notification for every user but the seller.
NewAuctionNotifications(seller_id, auction_id) ==
    SetToBag({Notification(u, "new_auction", auction_id) : u \in Users \ {seller_id}})

create_auction(seller_id, starting_bid, duration_days) ==
    /\ Ready
    /\ Len(auctions) < MaxAuctions
    /\ auctions' = Append(auctions,
           [seller_id |-> seller_id, starting_bid |-> starting_bid,
            current_bid |-> starting_bid, status |-> "active",
            end_time |-> now + duration_days, winner_id |-> NULL,
            sold_price |-> NULL, payment_status |-> "pending"])
    /\ notifications' = notifications (+) NewAuctionNotifications(seller_id, Len(auctions) + 1)
    /\ response' = Result("create_auction", TRUE, "", 0)
    /\ UNCHANGED <<bids, now, inflight, wallet>>

\* -------------------------------------------------------------- place_bid
\* ActiveRow with the end of the auction let in: end_time >= NOW().
ActiveRow_EndInclusive(a) ==
    Exists(a) /\ auctions[a].status = "active" /\ auctions[a].end_time >= now

\* The row the first SELECT returns: the auction, if it is active and not ended.
ActiveRow(a) == Exists(a) /\ auctions[a].status = "active" /\ auctions[a].end_time > now

\* auction['current_bid'] or auction['starting_bid']
CurrentBid(a) ==
    IF auctions[a].current_bid # 0 THEN auctions[a].current_bid ELSE auctions[a].starting_bid

\* MinBid taken from the starting_bid, not from the cached current_bid.
MinBid_FromStartingBid(a) == auctions[a].starting_bid + MINIMUM_BID_INCREMENT

MinBid(a) == CurrentBid(a) + MINIMUM_BID_INCREMENT

\* PlaceBidError without the check that the bidder is not the seller.
PlaceBidError_NoSellerCheck(a, bidder_id, bid_amount) ==
    IF ~ActiveRow(a) THEN "not_active"
    ELSE IF bid_amount < MinBid(a) THEN "bid_too_low"
    ELSE ""

\* PlaceBidError without the check of the amount.
PlaceBidError_NoFloorCheck(a, bidder_id, bid_amount) ==
    IF ~ActiveRow(a) THEN "not_active"
    ELSE IF auctions[a].seller_id = bidder_id THEN "own_auction"
    ELSE ""

\* PlaceBidError with the check of the amount before the check of the seller.
PlaceBidError_FloorFirst(a, bidder_id, bid_amount) ==
    IF ~ActiveRow(a) THEN "not_active"
    ELSE IF bid_amount < MinBid(a) THEN "bid_too_low"
    ELSE IF auctions[a].seller_id = bidder_id THEN "own_auction"
    ELSE ""

\* The checks of place_bid in the code's order; "" when the bid is accepted.
PlaceBidError(a, bidder_id, bid_amount) ==
    IF ~ActiveRow(a) THEN "not_active"
    ELSE IF auctions[a].seller_id = bidder_id THEN "own_auction"
    ELSE IF bid_amount < MinBid(a) THEN "bid_too_low"
    ELSE ""

\* PreviousBidders that never finds a previous bidder.
PreviousBidders_None(a) == {NULL}

\* SELECT bidder_id FROM bids ... ORDER BY bid_amount DESC LIMIT 1
PreviousBidders(a) ==
    IF BidsOn(a) = {} THEN {NULL} ELSE {bids[i].bidder_id : i \in HighestBids(a)}

\* The reads and checks of place_bid: a failed check returns at once.
place_bid_rejected(a, bidder_id, bid_amount) ==
    /\ Ready
    /\ PlaceBidError(a, bidder_id, bid_amount) # ""
    /\ response' = Result("place_bid", FALSE, PlaceBidError(a, bidder_id, bid_amount),
                      IF PlaceBidError(a, bidder_id, bid_amount) = "bid_too_low"
                      THEN MinBid(a) ELSE 0)
    /\ UNCHANGED <<auctions, bids, notifications, now, inflight, wallet>>

place_bid(a, bidder_id, bid_amount) ==
    /\ Ready
    /\ PlaceBidError(a, bidder_id, bid_amount) = ""
    /\ NumInflight < MaxInflight
    /\ Len(bids) + PendingBids < MaxBids
    /\ \E previous_bidder \in PreviousBidders(a) :
           Open(Txn("place_bid", a, bidder_id, bid_amount, previous_bidder, {}))
    /\ UNCHANGED <<auctions, bids, notifications, now, response, wallet>>

\* INSERT INTO bids, UPDATE auctions SET current_bid, the outbid notification, commit.
place_bid_commit(t) ==
    /\ Ready
    /\ t.op = "place_bid"
    /\ Close(t)
    /\ bids' = Append(bids, [auction_id |-> t.auction_id, bidder_id |-> t.user_id,
                             bid_amount |-> t.amount])
    /\ auctions' = [auctions EXCEPT ![t.auction_id].current_bid = t.amount]
    /\ notifications' =
           IF t.previous_bidder # NULL /\ t.previous_bidder # t.user_id
           THEN create_notification(notifications, t.previous_bidder, "outbid", t.auction_id)
           ELSE notifications
    /\ response' = Result("place_bid", TRUE, "", 0)
    /\ UNCHANGED <<now, wallet>>

\* The 'outbid' notifications sent so far.
NumOutbid ==
    BagCardinality([n \in {x \in BagToSet(notifications) : x.type = "outbid"} |->
                       CopiesIn(n, notifications)])

\* A store error (mysql.connector.Error) in place_bid after its checks.  The
\* except branch rolls back the INSERT and the UPDATE and returns the error.
\* The outbid notification goes through create_notification, which has a
\* connection of its own, commits its INSERT at once and catches its own
\* errors: an error before that call leaves nothing; an error in conn.commit()
\* leaves the notification; an error inside create_notification is swallowed
\* and place_bid commits the bid without the notification.
place_bid_failed(t) ==
    \/ /\ Ready
       /\ t.op = "place_bid"
       /\ Close(t)
       /\ response' = Result("place_bid", FALSE, "db_error", 0)
       /\ UNCHANGED <<auctions, bids, notifications, now, wallet>>
    \/ /\ Ready
       /\ t.op = "place_bid"
       /\ t.previous_bidder # NULL /\ t.previous_bidder # t.user_id
       /\ NumOutbid < MaxBids
       /\ Close(t)
       /\ notifications' =
              create_notification(notifications, t.previous_bidder, "outbid", t.auction_id)
       /\ response' = Result("place_bid", FALSE, "db_error", 0)
       /\ UNCHANGED <<auctions, bids, now, wallet>>
    \/ /\ Ready
       /\ t.op = "place_bid"
       /\ t.previous_bidder # NULL /\ t.previous_bidder # t.user_id
       /\ Close(t)
       /\ bids' = Append(bids, [auction_id |-> t.auction_id, bidder_id |-> t.user_id,
                                bid_amount |-> t.amount])
       /\ auctions' = [auctions EXCEPT ![t.auction_id].current_bid = t.amount]
       /\ response' = Result("place_bid", TRUE, "", 0)
       /\ UNCHANGED <<notifications, now, wallet>>

\* ------------------------------------------------- close_expired_auctions
\* WHERE a.status = 'active' AND a.end_time <= NOW()
Expired(a) == Exists(a) /\ auctions[a].status = "active" /\ auctions[a].end_time <= now

ExpiredAuctions == {a \in AuctionIds : Expired(a)}

\* Winners taken from the users table instead of the auction's bid rows.
Winners_AnyUser(a) == Users \cup {NULL}

\* SELECT a.*, MAX(b.bid_amount), b.bidder_id AS winner ... LEFT JOIN bids b
\* ... GROUP BY a.auction_id: b.bidder_id is neither aggregated nor grouped, so
\* where the server accepts the query it takes the bidder_id of any one bid row
\* of the group; NULL for an auction without bids.
Winners(a) == IF BidsOn(a) = {} THEN {NULL} ELSE {bids[i].bidder_id : i \in BidsOn(a)}

\* The rows the sweep may fetch: one (auction_id, winner) for each expired auction.
ExpiredRows == {f \in [ExpiredAuctions -> Users \cup {NULL}] :
                   \A a \in ExpiredAuctions : f[a] \in Winners(a)}

\* A server whose sql_mode has ONLY_FULL_GROUP_BY rejects the query (error 1055):
\* the except branch rolls back and returns False.
close_expired_auctions_rejected ==
    /\ Ready
    /\ response' = Result("close_expired_auctions", FALSE, "db_error", 0)
    /\ UNCHANGED <<auctions, bids, notifications, now, inflight, wallet>>

\* The SELECT of the sweep; with nothing expired the loop is empty and the
\* commit writes nothing.
close_expired_auctions ==
    \/ /\ Ready
       /\ ExpiredAuctions = {}
       /\ response' = Result("close_expired_auctions", TRUE, "", 0)
       /\ UNCHANGED <<auctions, bids, notifications, now, inflight, wallet>>
    \/ /\ Ready
       /\ ExpiredAuctions # {}
       /\ NumInflight < MaxInflight
       /\ \E rows \in ExpiredRows :
              /\ RoomForWon(Cardinality({a \in DOMAIN rows : rows[a] # NULL}))
              /\ Open(Txn("close_expired_auctions", 0, 0, 0, 0, rows))
       /\ UNCHANGED <<auctions, bids, notifications, now, response, wallet>>

\* ClosedRow without the else branch: an auction without a winner is left as it is.
ClosedRow_WinnerOnly(row, winner) ==
    IF winner # NULL
    THEN [row EXCEPT !.status = "completed", !.winner_id = winner]
    ELSE row

\* The row the loop body writes for one fetched auction.
ClosedRow(row, winner) ==
    IF winner # NULL
    THEN [row EXCEPT !.status = "completed", !.winner_id = winner]
    ELSE [row EXCEPT !.status = "completed"]

WonNotifications(rows) ==
    SetToBag({Notification(rows[a], "won", a) : a \in {x \in DOMAIN rows : rows[x] # NULL}})

\* The loop over the fetched rows (UPDATE by auction_id alone, and the 'won'
\* notification of each winner), then commit.
close_expired_auctions_commit(t) ==
    /\ Ready
    /\ t.op = "close_expired_auctions"
    /\ Close(t)
    /\ auctions' = [a \in DOMAIN auctions |->
                       IF a \in DOMAIN t.expired
                       THEN ClosedRow(auctions[a], t.expired[a]) ELSE auctions[a]]
    /\ notifications' = notifications (+) WonNotifications(t.expired)
    /\ response' = Result("close_expired_auctions", TRUE, "", 0)
    /\ UNCHANGED <<bids, now, wallet>>

\* --------------------------------------------------------------- sell_now
\* get_highest_bid(auction_id), on a connection of its own; no bid, no sale.
\* Neither sell_now nor its route reads the auction's status.
\* sell_now without the check for a highest bid: the auction is sold to nobody.
sell_now_rejected_SellsAnyway(a) ==
    /\ Ready
    /\ HighestBids(a) = {}
    /\ Exists(a)
    /\ auctions' = [auctions EXCEPT ![a].status = "sold", ![a].end_time = now]
    /\ response' = Result("sell_now", TRUE, "", 0)
    /\ UNCHANGED <<bids, notifications, now, inflight, wallet>>

sell_now_rejected(a) ==
    /\ Ready
    /\ HighestBids(a) = {}
    /\ response' = Result("sell_now", FALSE, "no_bids", 0)
    /\ UNCHANGED <<auctions, bids, notifications, now, inflight, wallet>>

sell_now(a) ==
    /\ Ready
    /\ NumInflight < MaxInflight
    /\ RoomForWon(1)
    /\ \E i \in HighestBids(a) :
           Open(Txn("sell_now", a, bids[i].bidder_id, bids[i].bid_amount, 0, {}))
    /\ UNCHANGED <<auctions, bids, notifications, now, response, wallet>>

\* SoldRow without end_time = NOW(): the auction keeps the end it was created with.
SoldRow_KeepsEndTime(row, winner, price) ==
    [row EXCEPT !.status = "sold", !.sold_price = price, !.winner_id = winner]

\* The row sell_now's UPDATE writes.
SoldRow(row, winner, price) ==
    [row EXCEPT !.status = "sold", !.sold_price = price, !.winner_id = winner,
                !.end_time = now]

sell_now_commit(t) ==
    /\ Ready
    /\ t.op = "sell_now"
    /\ Close(t)
    /\ auctions' = [auctions EXCEPT ![t.auction_id] = SoldRow(@, t.user_id, t.amount)]
    /\ notifications' = create_notification(notifications, t.user_id, "won", t.auction_id)
    /\ response' = Result("sell_now", TRUE, "", 0)
    /\ UNCHANGED <<bids, now, wallet>>

\* ------------------------------------------------------ sell_now (route)
\* The route's checks before it calls the operation: the auction is there, the
\* caller is its seller, and get_highest_bid finds a bid.
SellNowRouteError(a, seller_id) ==
    IF ~Exists(a) THEN "not_found"
    ELSE IF auctions[a].seller_id # seller_id THEN "not_authorized"
    ELSE IF HighestBids(a) = {} THEN "no_bids"
    ELSE ""

sell_now_route_rejected(a, seller_id) ==
    /\ Ready
    /\ SellNowRouteError(a, seller_id) # ""
    /\ response' = Result("sell_now_route", FALSE, SellNowRouteError(a, seller_id), 0)
    /\ UNCHANGED <<auctions, bids, notifications, now, inflight, wallet>>

\* The route reads the highest bid, then the operation reads it again on a
\* connection of its own; previous_bidder carries the bidder the route read.
sell_now_route(a, seller_id) ==
    /\ Ready
    /\ NumInflight < MaxInflight
    /\ RoomForWon(1)
    /\ SellNowRouteError(a, seller_id) = ""
    /\ \E r \in HighestBids(a), i \in HighestBids(a) :
           Open(Txn("sell_now_route", a, bids[i].bidder_id, bids[i].bid_amount,
                    bids[r].bidder_id, {}))
    /\ UNCHANGED <<auctions, bids, notifications, now, response, wallet>>

\* create_notification(user_id=highest_bid['bidder_id'], message=...): the type
\* is left to its default, 'new_auction'.
RouteNotifications(bag, t) ==
    create_notification(bag, t.previous_bidder, "new_auction", t.auction_id)

\* The operation's UPDATE, its 'won' notification and commit, and then the
\* route's notification on success.
sell_now_route_commit(t) ==
    /\ Ready
    /\ t.op = "sell_now_route"
    /\ Close(t)
    /\ auctions' = [auctions EXCEPT ![t.auction_id] = SoldRow(@, t.user_id, t.amount)]
    /\ notifications' =
           RouteNotifications(
               create_notification(notifications, t.user_id, "won", t.auction_id), t)
    /\ response' = Result("sell_now_route", TRUE, "", 0)
    /\ UNCHANGED <<bids, now, wallet>>

\* ---------------------------------------------------- update_auction_info
\* duration_days of the edit form: any whole number; absent, it is None.
EditDurations == {0} \cup Durations

\* The route's checks before the update: the auction is there and the caller is
\* its seller. The status and the end_time are not looked at.
EditAuctionError(a, seller_id) ==
    IF ~Exists(a) THEN "not_found"
    ELSE IF auctions[a].seller_id # seller_id THEN "not_authorized"
    ELSE ""

edit_auction_rejected(a, seller_id) ==
    /\ Ready
    /\ EditAuctionError(a, seller_id) # ""
    /\ response' = Result("edit_auction", FALSE, EditAuctionError(a, seller_id), 0)
    /\ UNCHANGED <<auctions, bids, notifications, now, inflight, wallet>>

\* timedelta(days=None) raises TypeError before the UPDATE; except Exception
\* returns False.
update_auction_info_failed(a) ==
    /\ Ready
    /\ response' = Result("update_auction_info", FALSE, "", 0)
    /\ UNCHANGED <<auctions, bids, notifications, now, inflight, wallet>>

\* UPDATE auctions SET title, description, category_id, end_time WHERE
\* auction_id: end_time = datetime.now() + timedelta(days=duration_days).
EditedRow(row, duration_days) == [row EXCEPT !.end_time = now + duration_days]

\* One UPDATE by auction_id alone and its commit; True also when no row matches.
update_auction_info(a, duration_days) ==
    /\ Ready
    /\ auctions' = [x \in DOMAIN auctions |->
                       IF x = a THEN EditedRow(auctions[x], duration_days)
                       ELSE auctions[x]]
    /\ response' = Result("update_auction_info", TRUE, "", 0)
    /\ UNCHANGED <<bids, notifications, now, inflight, wallet>>

\* POST /edit_auction/<auction_id> by the seller, with or without duration_days.
edit_auction(a, seller_id) ==
    /\ EditAuctionError(a, seller_id) = ""
    /\ \/ update_auction_info_failed(a)
       \/ \E d \in EditDurations : update_auction_info(a, d)

\* ------------------------------------------------ end_auction_immediately
\* EndNowError without the check of the status.
EndNowError_NoStatusCheck(a, seller_id) ==
    IF ~(Exists(a) /\ auctions[a].seller_id = seller_id) THEN "not_found"
    ELSE IF HighestBids(a) = {} THEN "no_bids"
    ELSE ""

\* The checks of end_auction_immediately in the code's order; "" when it goes on.
EndNowError(a, seller_id) ==
    IF ~(Exists(a) /\ auctions[a].seller_id = seller_id) THEN "not_found"
    ELSE IF auctions[a].status # "active" THEN "not_active"
    ELSE IF HighestBids(a) = {} THEN "no_bids"
    ELSE ""

end_auction_immediately_rejected(a, seller_id) ==
    /\ Ready
    /\ EndNowError(a, seller_id) # ""
    /\ response' = Result("end_auction_immediately", FALSE, EndNowError(a, seller_id), 0)
    /\ UNCHANGED <<auctions, bids, notifications, now, inflight, wallet>>

end_auction_immediately(a, seller_id) ==
    /\ Ready
    /\ EndNowError(a, seller_id) = ""
    /\ NumInflight < MaxInflight
    /\ RoomForWon(1)
    /\ \E i \in HighestBids(a) :
           Open(Txn("end_auction_immediately", a, bids[i].bidder_id, bids[i].bid_amount, 0, {}))
    /\ UNCHANGED <<auctions, bids, notifications, now, response, wallet>>

\* The row end_auction_immediately's UPDATE writes.
EndedRow(row, winner, price) ==
    [row EXCEPT !.status = "completed", !.winner_id = winner, !.sold_price = price,
                !.end_time = now]

end_auction_immediately_commit(t) ==
    /\ Ready
    /\ t.op = "end_auction_immediately"
    /\ Close(t)
    /\ auctions' = [auctions EXCEPT ![t.auction_id] = EndedRow(@, t.user_id, t.amount)]
    /\ notifications' = create_notification(notifications, t.user_id, "won", t.auction_id)
    /\ response' = Result("end_auction_immediately", TRUE, "", 0)
    /\ UNCHANGED <<bids, now, wallet>>

\* ---------------------------------------------------- get_pending_payments
\* WHERE a.winner_id = %s AND a.status IN ('completed', 'sold')
\*   AND (a.payment_status IS NULL OR a.payment_status = 'pending')
get_pending_payments(user_id) ==
    {a \in 1..Len(auctions) :
        /\ auctions[a].winner_id = user_id
        /\ auctions[a].status \in {"completed", "sold"}
        /\ auctions[a].payment_status = "pending"}

\* ------------------------------------------------------------ add_to_wallet
\* A ledger row: the columns of wallet_transactions the operations write.
WalletTransaction(user_id, transaction_type, amount, balance_after, reference_id) ==
    [user_id |-> user_id, transaction_type |-> transaction_type, amount |-> amount,
     balance_after |-> balance_after, reference_id |-> reference_id]

WalletTxn(op, auction_id, user_id, amount, seller_id, balance, seller_balance) ==
    [op |-> op, auction_id |-> auction_id, user_id |-> user_id, amount |-> amount,
     seller_id |-> seller_id, balance |-> balance, seller_balance |-> seller_balance]

\* Rows the wallet operations have inserted and are still to insert, so that
\* the tables stay within MaxTopUps and MaxPayments.
NumTopUps ==
    Cardinality({i \in 1..Len(wallet_transactions) :
                    wallet_transactions[i].transaction_type = "top_up"})
    + BagCardinality([t \in {x \in BagToSet(inflight) : x.op = "add_to_wallet"} |->
                         CopiesIn(t, inflight)])

NumPayments ==
    BagCardinality([n \in {x \in BagToSet(notifications) :
                              x.type = "won" /\ x.user_id = auctions[x.ref].seller_id} |->
                       CopiesIn(n, notifications)])
    + BagCardinality([t \in {x \in BagToSet(inflight) : x.op = "process_wallet_payment"} |->
                         CopiesIn(t, inflight)])

\* wallet_topup calls add_to_wallet(user, amount, 'top_up', ...) with an amount
\* it has found within its limits; add_to_wallet reads the balance.
add_to_wallet(user_id, amount) ==
    /\ Ready
    /\ NumInflight < MaxInflight
    /\ NumTopUps < MaxTopUps
    /\ Open(WalletTxn("add_to_wallet", NULL, user_id, amount, NULL,
                      wallet_balance[user_id], 0))
    /\ UNCHANGED <<auctions, bids, notifications, now, response, wallet>>

\* UPDATE users SET wallet_balance = new_balance, INSERT the ledger row, commit.
add_to_wallet_commit(t) ==
    /\ Ready
    /\ t.op = "add_to_wallet"
    /\ Close(t)
    /\ wallet_balance' = [wallet_balance EXCEPT ![t.user_id] = t.balance + t.amount]
    /\ wallet_transactions' = Append(wallet_transactions,
           WalletTransaction(t.user_id, "top_up", t.amount, t.balance + t.amount, NULL))
    /\ response' = Result("add_to_wallet", TRUE, "", 0)
    /\ UNCHANGED <<auctions, bids, notifications, now>>

\* ------------------------------------------------------------ wallet_topup
\* TopUpError without the upper limit.
TopUpError_NoMaximum(amount) ==
    IF amount = 0 \/ amount < MIN_TOPUP THEN "below_minimum" ELSE ""

\* if not amount or amount < 10: ...; if amount > 1000000: ...
TopUpError(amount) ==
    IF amount = 0 \/ amount < MIN_TOPUP THEN "below_minimum"
    ELSE IF amount > MAX_TOPUP THEN "above_maximum"
    ELSE ""

\* The route flashes the limit and redirects without calling add_to_wallet.
wallet_topup_rejected(user_id, amount) ==
    /\ Ready
    /\ TopUpError(amount) # ""
    /\ response' = Result("wallet_topup", FALSE, TopUpError(amount), 0)
    /\ UNCHANGED <<auctions, bids, notifications, now, inflight, wallet>>

\* Within the limits the route calls add_to_wallet(user, amount, 'top_up', ...).
wallet_topup(user_id, amount) ==
    /\ TopUpError(amount) = ""
    /\ add_to_wallet(user_id, amount)

\* ------------------------------------------------------- deduct_from_wallet
NumCashOuts ==
    Cardinality({i \in 1..Len(wallet_transactions) :
                    wallet_transactions[i].transaction_type = "cash_out"})
    + BagCardinality([t \in {x \in BagToSet(inflight) : x.op = "deduct_from_wallet"} |->
                         CopiesIn(t, inflight)])

\* DeductError without the check of the balance.
DeductError_NoBalanceCheck(user_id, amount) == ""

\* if current_balance < float(amount): "" when the balance covers the amount.
DeductError(user_id, amount) ==
    IF wallet_balance[user_id] < amount THEN "insufficient" ELSE ""

\* wallet_cashout calls deduct_from_wallet(user, amount, 'cash_out', ...);
\* deduct_from_wallet reads the balance and returns at once when it is short.
deduct_from_wallet_rejected(user_id, amount) ==
    /\ Ready
    /\ DeductError(user_id, amount) # ""
    /\ response' = Result("deduct_from_wallet", FALSE, DeductError(user_id, amount), 0)
    /\ UNCHANGED <<auctions, bids, notifications, now, inflight, wallet>>

deduct_from_wallet(user_id, amount) ==
    /\ Ready
    /\ DeductError(user_id, amount) = ""
    /\ NumInflight < MaxInflight
    /\ NumCashOuts < MaxCashOuts
    /\ Open(WalletTxn("deduct_from_wallet", NULL, user_id, amount, NULL,
                      wallet_balance[user_id], 0))
    /\ UNCHANGED <<auctions, bids, notifications, now, response, wallet>>

\* DeductedBalance that leaves the balance it read.
DeductedBalance_NotDeducted(t) == t.balance

\* new_balance = current_balance - float(amount)
DeductedBalance(t) == t.balance - t.amount

\* UPDATE users SET wallet_balance = new_balance, INSERT the ledger row, commit.
deduct_from_wallet_commit(t) ==
    /\ Ready
    /\ t.op = "deduct_from_wallet"
    /\ Close(t)
    /\ wallet_balance' = [wallet_balance EXCEPT ![t.user_id] = DeductedBalance(t)]
    /\ wallet_transactions' = Append(wallet_transactions,
           WalletTransaction(t.user_id, "cash_out", t.amount, DeductedBalance(t), NULL))
    /\ response' = Result("deduct_from_wallet", TRUE, "", 0)
    /\ UNCHANGED <<auctions, bids, notifications, now>>

\* --------------------------------------------------- process_wallet_payment
\* float(auction['sold_price'] or auction['current_bid'])
AmountDue(a) ==
    IF auctions[a].sold_price # NULL THEN auctions[a].sold_price ELSE auctions[a].current_bid

\* PaymentError without the check that the buyer is the winner.
PaymentError_NoWinnerCheck(a, buyer_id) ==
    IF ~Exists(a) THEN "not_found"
    ELSE IF wallet_balance[buyer_id] < AmountDue(a) THEN "insufficient"
    ELSE ""

\* PaymentError without the check of the buyer's balance.
PaymentError_NoBalanceCheck(a, buyer_id) ==
    IF ~Exists(a) THEN "not_found"
    ELSE IF auctions[a].winner_id # buyer_id THEN "not_winner"
    ELSE ""

\* The checks of process_wallet_payment in the code's order; "" when it goes on.
PaymentError(a, buyer_id) ==
    IF ~Exists(a) THEN "not_found"
    ELSE IF auctions[a].winner_id # buyer_id THEN "not_winner"
    ELSE IF wallet_balance[buyer_id] < AmountDue(a) THEN "insufficient"
    ELSE ""

\* The reads and checks: a failed check returns at once; the message of the
\* balance check carries amount - buyer_balance.
process_wallet_payment_rejected(a, buyer_id) ==
    /\ Ready
    /\ PaymentError(a, buyer_id) # ""
    /\ response' = Result("process_wallet_payment", FALSE, PaymentError(a, buyer_id),
                      IF PaymentError(a, buyer_id) = "insufficient"
                      THEN AmountDue(a) - wallet_balance[buyer_id] ELSE 0)
    /\ UNCHANGED <<auctions, bids, notifications, now, inflight, wallet>>

\* The auction row, the buyer's balance and the seller's balance, all read in
\* the transaction's snapshot.
process_wallet_payment(a, buyer_id) ==
    /\ Ready
    /\ PaymentError(a, buyer_id) = ""
    /\ NumInflight < MaxInflight
    /\ NumPayments < MaxPayments
    /\ Open(WalletTxn("process_wallet_payment", a, buyer_id, AmountDue(a),
                      auctions[a].seller_id, wallet_balance[buyer_id],
                      wallet_balance[auctions[a].seller_id]))
    /\ UNCHANGED <<auctions, bids, notifications, now, response, wallet>>

\* PaidBalances without the seller's UPDATE: the buyer is debited, nobody is credited.
PaidBalances_BuyerOnly(t) ==
    [wallet_balance EXCEPT ![t.user_id] = t.balance - t.amount]

\* PaidBalances without the buyer's UPDATE: the seller is credited, nobody is debited.
PaidBalances_SellerOnly(t) ==
    [wallet_balance EXCEPT ![t.seller_id] = t.seller_balance + t.amount]

\* The two balances as the UPDATEs leave them: the buyer's first, then the seller's.
PaidBalances(t) ==
    [[wallet_balance EXCEPT ![t.user_id] = t.balance - t.amount]
        EXCEPT ![t.seller_id] = t.seller_balance + t.amount]

\* PaymentRows without the seller's row: the credit leaves no trace in the ledger.
PaymentRows_BuyerOnly(t) ==
    << WalletTransaction(t.user_id, "payment_made", t.amount,
                         t.balance - t.amount, t.auction_id) >>

\* PaymentRows with the balances as they were read, before the transfer.
PaymentRows_BalanceBefore(t) ==
    << WalletTransaction(t.user_id, "payment_made", t.amount, t.balance, t.auction_id),
       WalletTransaction(t.seller_id, "payment_received", t.amount,
                         t.seller_balance, t.auction_id) >>

\* The two ledger rows, the buyer's first.
PaymentRows(t) ==
    << WalletTransaction(t.user_id, "payment_made", t.amount,
                         t.balance - t.amount, t.auction_id),
       WalletTransaction(t.seller_id, "payment_received", t.amount,
                         t.seller_balance + t.amount, t.auction_id) >>

\* The UPDATEs of the two balances, the two ledger rows, payment_status =
\* 'paid', the seller's notification, commit.
process_wallet_payment_commit(t) ==
    /\ Ready
    /\ t.op = "process_wallet_payment"
    /\ Close(t)
    /\ wallet_balance' = PaidBalances(t)
    /\ wallet_transactions' = wallet_transactions \o PaymentRows(t)
    /\ auctions' = [auctions EXCEPT ![t.auction_id].payment_status = "paid"]
    /\ notifications' = create_notification(notifications, t.seller_id, "won", t.auction_id)
    /\ response' = Result("process_wallet_payment", TRUE, "", 0)
    /\ UNCHANGED <<bids, now>>

\* A store error (mysql.connector.Error) in a statement after the checks: the
\* except branch rolls the transaction back.  The seller's notification goes
\* through create_notification's own connection, which has committed it by the
\* time conn.commit() is reached: an error before that call leaves nothing, an
\* error in conn.commit() leaves the notification.
process_wallet_payment_failed(t) ==
    \/ /\ Ready
       /\ t.op = "process_wallet_payment"
       /\ Close(t)
       /\ response' = Result("process_wallet_payment", FALSE, "db_error", 0)
       /\ UNCHANGED <<auctions, bids, notifications, now, wallet>>
    \/ /\ Ready
       /\ t.op = "process_wallet_payment"
       /\ Close(t)
       /\ notifications' = create_notification(notifications, t.seller_id, "won", t.auction_id)
       /\ response' = Result("process_wallet_payment", FALSE, "db_error", 0)
       /\ UNCHANGED <<auctions, bids, now, wallet>>

\* ---------------------------------------------------- mark_payment_complete
\* PaymentRowMatches by auction_id alone.
PaymentRowMatches_AnyUser(a, user_id) == Exists(a)

\* UPDATE auctions SET payment_status = 'paid' WHERE auction_id = %s AND
\* winner_id = %s: the rows it matches (a NULL winner_id matches no user).
PaymentRowMatches(a, user_id) == Exists(a) /\ auctions[a].winner_id = user_id

\* PaymentRowChanged that counts a matched row also when it is already 'paid'.
PaymentRowChanged_FoundRows(a, user_id) == PaymentRowMatches(a, user_id)

\* cursor.rowcount > 0: the connection is opened without the FOUND_ROWS client
\* flag, so rowcount is the number of rows the UPDATE changed, and a matched row
\* that is already 'paid' does not count.
PaymentRowChanged(a, user_id) ==
    PaymentRowMatches(a, user_id) /\ auctions[a].payment_status # "paid"

\* No row changed: rowcount is 0 and the operation returns False.
mark_payment_complete_rejected(a, user_id) ==
    /\ Ready
    /\ ~PaymentRowChanged(a, user_id)
    /\ response' = Result("mark_payment_complete", FALSE, "no_row", 0)
    /\ UNCHANGED <<auctions, bids, notifications, now, inflight, wallet>>

\* The UPDATE and its commit, then the seller's notification.
mark_payment_complete(a, user_id) ==
    /\ Ready
    /\ PaymentRowChanged(a, user_id)
    /\ NumPayments < MaxPayments
    /\ auctions' = [auctions EXCEPT ![a].payment_status = "paid"]
    /\ notifications' = create_notification(notifications, auctions[a].seller_id, "won", a)
    /\ response' = Result("mark_payment_complete", TRUE, "", 0)
    /\ UNCHANGED <<bids, now, inflight, wallet>>

\* ------------------------------------------------------- get_connection
\* The operations that begin with conn = self.get_connection().
CoreOperations ==
    {"create_auction", "place_bid", "close_expired_auctions", "sell_now",
     "end_auction_immediately", "add_to_wallet", "deduct_from_wallet",
     "process_wallet_payment", "mark_payment_complete", "get_wallet_balance"}

\* NoConnectionResult of an operation that lets the failure escape as an exception.
NoConnectionResult_Raises(op) == Result(op, FALSE, "raised", 0)

\* if not conn: return ...: (False, "Database connection failed") from the
\* operations that return a pair, False from those that return a flag, and the
\* default balance 0.00 from get_wallet_balance.
NoConnectionResult(op) ==
    IF op = "get_wallet_balance" THEN Result(op, TRUE, "", 0)
    ELSE IF op \in {"close_expired_auctions", "add_to_wallet", "mark_payment_complete"}
    THEN Result(op, FALSE, "", 0)
    ELSE Result(op, FALSE, "connection_failed", 0)

\* get_connection catches the connector's error and returns None; the
\* operation returns before its try block, with nothing read or written.
connection_failed(op) ==
    /\ Ready
    /\ response' = NoConnectionResult(op)
    /\ UNCHANGED <<auctions, bids, notifications, now, inflight, wallet>>

\* ------------------------------------------------------------------ clock
Tick ==
    /\ Ready
    /\ now < MaxTime
    /\ now' = now + 1
    /\ UNCHANGED <<auctions, bids, notifications, inflight, response, wallet>>

\* The caller takes the result of the call that has just returned.
Return ==
    /\ ~Ready
    /\ response' = NoResponse
    /\ UNCHANGED <<auctions, bids, notifications, now, inflight, wallet>>

Next ==
    \/ \E s \in Sellers, d \in Durations : create_auction(s, StartingBid, d)
    \/ \E a \in AuctionIds, u \in Users, amt \in BidAmounts : place_bid_rejected(a, u, amt)
    \/ \E a \in AuctionIds, u \in Users, amt \in BidAmounts : place_bid(a, u, amt)
    \/ \E t \in BagToSet(inflight) : place_bid_commit(t)
    \/ close_expired_auctions_rejected
    \/ close_expired_auctions
    \/ \E t \in BagToSet(inflight) : close_expired_auctions_commit(t)
    \/ \E a \in AuctionIds : sell_now_rejected(a)
    \/ \E a \in AuctionIds : sell_now(a)
    \/ \E t \in BagToSet(inflight) : sell_now_commit(t)
    \/ \E a \in AuctionIds, u \in Users : end_auction_immediately_rejected(a, u)
    \/ \E a \in AuctionIds, u \in Users : end_auction_immediately(a, u)
    \/ \E t \in BagToSet(inflight) : end_auction_immediately_commit(t)
    \/ Tick
    \/ Return

\* Any interleaving of the operations: up to MaxInflight connections are open at once.
Spec == Init /\ [][Next]_vars

\* One operation at a time: a call starts only when no other is mid-way.
Sequential == inflight = EmptyBag

SeqNext ==
    \/ \E s \in Sellers, d \in Durations : Sequential /\ create_auction(s, StartingBid, d)
    \/ \E a \in AuctionIds, u \in Users, amt \in BidAmounts :
           Sequential /\ place_bid_rejected(a, u, amt)
    \/ \E a \in AuctionIds, u \in Users, amt \in BidAmounts :
           Sequential /\ place_bid(a, u, amt)
    \/ \E t \in BagToSet(inflight) : place_bid_commit(t)
    \/ Sequential /\ close_expired_auctions_rejected
    \/ Sequential /\ close_expired_auctions
    \/ \E t \in BagToSet(inflight) : close_expired_auctions_commit(t)
    \/ \E a \in AuctionIds : Sequential /\ sell_now_rejected(a)
    \/ \E a \in AuctionIds : Sequential /\ sell_now(a)
    \/ \E t \in BagToSet(inflight) : sell_now_commit(t)
    \/ \E a \in AuctionIds, u \in Users : Sequential /\ end_auction_immediately_rejected(a, u)
    \/ \E a \in AuctionIds, u \in Users : Sequential /\ end_auction_immediately(a, u)
    \/ \E t \in BagToSet(inflight) : end_auction_immediately_commit(t)
    \/ Tick
    \/ Return

SeqSpec == Init /\ [][SeqNext]_vars

\* Auctions, bids and the seller's request to sell now, one at a time.
RouteNext ==
    \/ \E s \in Sellers, d \in Durations : Sequential /\ create_auction(s, StartingBid, d)
    \/ \E a \in AuctionIds, u \in Users, amt \in BidAmounts :
           Sequential /\ place_bid(a, u, amt)
    \/ \E t \in BagToSet(inflight) : place_bid_commit(t)
    \/ \E a \in AuctionIds, u \in Users : Sequential /\ sell_now_route_rejected(a, u)
    \/ \E a \in AuctionIds, u \in Users : Sequential /\ sell_now_route(a, u)
    \/ \E t \in BagToSet(inflight) : sell_now_route_commit(t)
    \/ Tick
    \/ Return

RouteSpec == Init /\ [][RouteNext]_vars

\* Auctions, bids, the sweep and the seller's edits, one at a time.
EditNext ==
    \/ \E s \in Sellers, d \in Durations : Sequential /\ create_auction(s, StartingBid, d)
    \/ \E a \in AuctionIds, u \in Users, amt \in BidAmounts :
           Sequential /\ place_bid_rejected(a, u, amt)
    \/ \E a \in AuctionIds, u \in Users, amt \in BidAmounts :
           Sequential /\ place_bid(a, u, amt)
    \/ \E t \in BagToSet(inflight) : place_bid_commit(t)
    \/ Sequential /\ close_expired_auctions_rejected
    \/ Sequential /\ close_expired_auctions
    \/ \E t \in BagToSet(inflight) : close_expired_auctions_commit(t)
    \/ \E a \in AuctionIds, u \in Users : Sequential /\ edit_auction_rejected(a, u)
    \/ \E a \in AuctionIds, u \in Users : Sequential /\ edit_auction(a, u)
    \/ Tick
    \/ Return

EditSpec == Init /\ [][EditNext]_vars

\* Bids and the closing operations on one auction, which may overlap each
\* other, then top-ups and the wallet payment, one at a time.
ChargeNext ==
    \/ \E s \in Sellers, d \in Durations :
           Sequential /\ Len(auctions) < PayAuctions /\ create_auction(s, StartingBid, d)
    \/ \E a \in AuctionIds, u \in Users, amt \in BidAmounts : place_bid(a, u, amt)
    \/ \E t \in BagToSet(inflight) : place_bid_commit(t)
    \/ close_expired_auctions
    \/ \E t \in BagToSet(inflight) : close_expired_auctions_commit(t)
    \/ \E a \in AuctionIds : sell_now(a)
    \/ \E t \in BagToSet(inflight) : sell_now_commit(t)
    \/ \E u \in Users, amt \in TopUpAmounts : Sequential /\ add_to_wallet(u, amt)
    \/ \E t \in BagToSet(inflight) : add_to_wallet_commit(t)
    \/ \E a \in AuctionIds, u \in Users : Sequential /\ process_wallet_payment(a, u)
    \/ \E t \in BagToSet(inflight) : process_wallet_payment_commit(t)
    \/ Tick
    \/ Return

ChargeSpec == Init /\ [][ChargeNext]_vars

\* The periodic caller of the sweep (check_auction_status, or
\* close_expired_auctions_task run by a scheduler): one call of
\* close_expired_auctions, whatever its outcome.
SweepCall ==
    Sequential /\ (close_expired_auctions_rejected \/ close_expired_auctions)

\* Auctions, bids, the clock and the sweep, one operation at a time.
LiveNext ==
    \/ \E s \in Sellers, d \in Durations : Sequential /\ create_auction(s, StartingBid, d)
    \/ \E a \in AuctionIds, u \in Users, amt \in BidAmounts :
           Sequential /\ place_bid(a, u, amt)
    \/ \E t \in BagToSet(inflight) : place_bid_commit(t)
    \/ SweepCall
    \/ \E t \in BagToSet(inflight) : close_expired_auctions_commit(t)
    \/ Tick
    \/ Return

\* The sweep is called again and again, and a call that has started finishes:
\* a call that is mid-way commits and its caller takes the result.
LiveSpec ==
    /\ Init /\ [][LiveNext]_vars
    /\ WF_vars(SweepCall)
    /\ WF_vars(\E t \in BagToSet(inflight) : close_expired_auctions_commit(t))
    /\ WF_vars(\E t \in BagToSet(inflight) : place_bid_commit(t))
    /\ WF_vars(Return)

\* The auction operations one at a time, where a store error may strike
\* place_bid after its checks and where any operation may find no connection.
FaultNext ==
    \/ \E s \in Sellers, d \in Durations : Sequential /\ create_auction(s, StartingBid, d)
    \/ \E a \in AuctionIds, u \in Users, amt \in BidAmounts :
           Sequential /\ place_bid_rejected(a, u, amt)
    \/ \E a \in AuctionIds, u \in Users, amt \in BidAmounts :
           Sequential /\ place_bid(a, u, amt)
    \/ \E t \in BagToSet(inflight) : place_bid_commit(t)
    \/ \E t \in BagToSet(inflight) : place_bid_failed(t)
    \/ \E op \in CoreOperations : Sequential /\ connection_failed(op)
    \/ \E a \in AuctionIds, u \in Users : Sequential /\ end_auction_immediately_rejected(a, u)
    \/ \E a \in AuctionIds, u \in Users : Sequential /\ end_auction_immediately(a, u)
    \/ \E t \in BagToSet(inflight) : end_auction_immediately_commit(t)
    \/ Tick
    \/ Return

FaultSpec == Init /\ [][FaultNext]_vars

\* The auction operations one at a time, with the wallet and payment
\* operations, which may overlap each other.
PayNext ==
    \/ \E s \in Sellers, d \in Durations :
           Sequential /\ Len(auctions) < PayAuctions /\ create_auction(s, StartingBid, d)
    \/ \E a \in AuctionIds, u \in Users, amt \in BidAmounts :
           Sequential /\ place_bid(a, u, amt)
    \/ \E t \in BagToSet(inflight) : place_bid_commit(t)
    \/ Sequential /\ close_expired_auctions
    \/ \E t \in BagToSet(inflight) : close_expired_auctions_commit(t)
    \/ \E a \in AuctionIds : Sequential /\ sell_now_rejected(a)
    \/ \E a \in AuctionIds : Sequential /\ sell_now(a)
    \/ \E t \in BagToSet(inflight) : sell_now_commit(t)
    \/ \E a \in AuctionIds, u \in Users : Sequential /\ end_auction_immediately(a, u)
    \/ \E t \in BagToSet(inflight) : end_auction_immediately_commit(t)
    \/ \E u \in Users, amt \in TopUpAmounts : add_to_wallet(u, amt)
    \/ \E t \in BagToSet(inflight) : add_to_wallet_commit(t)
    \/ \E a \in AuctionIds, u \in Users : process_wallet_payment_rejected(a, u)
    \/ \E a \in AuctionIds, u \in Users : process_wallet_payment(a, u)
    \/ \E t \in BagToSet(inflight) : process_wallet_payment_commit(t)
    \/ \E t \in BagToSet(inflight) : process_wallet_payment_failed(t)
    \/ \E a \in AuctionIds, u \in Users : mark_payment_complete_rejected(a, u)
    \/ \E a \in AuctionIds, u \in Users : mark_payment_complete(a, u)
    \/ Tick
    \/ Return

PaySpec == Init /\ [][PayNext]_vars

\* The same operations, every one of them called when no other is mid-way.
SeqPayNext ==
    \/ \E s \in Sellers, d \in Durations :
           Sequential /\ Len(auctions) < PayAuctions /\ create_auction(s, StartingBid, d)
    \/ \E a \in AuctionIds, u \in Users, amt \in BidAmounts :
           Sequential /\ place_bid(a, u, amt)
    \/ \E t \in BagToSet(inflight) : place_bid_commit(t)
    \/ Sequential /\ close_expired_auctions
    \/ \E t \in BagToSet(inflight) : close_expired_auctions_commit(t)
    \/ \E a \in AuctionIds : Sequential /\ sell_now_rejected(a)
    \/ \E a \in AuctionIds : Sequential /\ sell_now(a)
    \/ \E t \in BagToSet(inflight) : sell_now_commit(t)
    \/ \E a \in AuctionIds, u \in Users : Sequential /\ end_auction_immediately(a, u)
    \/ \E t \in BagToSet(inflight) : end_auction_immediately_commit(t)
    \/ \E u \in Users, amt \in TopUpAmounts : Sequential /\ add_to_wallet(u, amt)
    \/ \E t \in BagToSet(inflight) : add_to_wallet_commit(t)
    \/ \E a \in AuctionIds, u \in Users : Sequential /\ process_wallet_payment_rejected(a, u)
    \/ \E a \in AuctionIds, u \in Users : Sequential /\ process_wallet_payment(a, u)
    \/ \E t \in BagToSet(inflight) : process_wallet_payment_commit(t)
    \/ \E t \in BagToSet(inflight) : process_wallet_payment_failed(t)
    \/ \E a \in AuctionIds, u \in Users : Sequential /\ mark_payment_complete_rejected(a, u)
    \/ \E a \in AuctionIds, u \in Users : Sequential /\ mark_payment_complete(a, u)
    \/ Tick
    \/ Return

SeqPaySpec == Init /\ [][SeqPayNext]_vars

\* The wallet: top-ups, cash-outs and wallet payments, which may overlap each
\* other, on one auction that is bid on and ended one operation at a time.
WalletNext ==
    \/ \E s \in Sellers, d \in Durations :
           Sequential /\ Len(auctions) < PayAuctions /\ create_auction(s, StartingBid, d)
    \/ \E a \in AuctionIds, u \in Users, amt \in BidAmounts :
           Sequential /\ place_bid(a, u, amt)
    \/ \E t \in BagToSet(inflight) : place_bid_commit(t)
    \/ \E a \in AuctionIds, u \in Users : Sequential /\ end_auction_immediately(a, u)
    \/ \E t \in BagToSet(inflight) : end_auction_immediately_commit(t)
    \/ \E u \in Users, amt \in TopUpAmounts : add_to_wallet(u, amt)
    \/ \E t \in BagToSet(inflight) : add_to_wallet_commit(t)
    \/ \E u \in Users, amt \in CashOutAmounts : deduct_from_wallet_rejected(u, amt)
    \/ \E u \in Users, amt \in CashOutAmounts : deduct_from_wallet(u, amt)
    \/ \E t \in BagToSet(inflight) : deduct_from_wallet_commit(t)
    \/ \E a \in AuctionIds, u \in Users : process_wallet_payment_rejected(a, u)
    \/ \E a \in AuctionIds, u \in Users : process_wallet_payment(a, u)
    \/ \E t \in BagToSet(inflight) : process_wallet_payment_commit(t)
    \/ Return

WalletSpec == Init /\ [][WalletNext]_vars

\* The same operations, every one of them called when no other is mid-way.
SeqWalletNext ==
    \/ \E s \in Sellers, d \in Durations :
           Sequential /\ Len(auctions) < PayAuctions /\ create_auction(s, StartingBid, d)
    \/ \E a \in AuctionIds, u \in Users, amt \in BidAmounts :
           Sequential /\ place_bid(a, u, amt)
    \/ \E t \in BagToSet(inflight) : place_bid_commit(t)
    \/ \E a \in AuctionIds, u \in Users : Sequential /\ end_auction_immediately(a, u)
    \/ \E t \in BagToSet(inflight) : end_auction_immediately_commit(t)
    \/ \E u \in Users, amt \in TopUpAmounts : Sequential /\ add_to_wallet(u, amt)
    \/ \E t \in BagToSet(inflight) : add_to_wallet_commit(t)
    \/ \E u \in Users, amt \in CashOutAmounts : Sequential /\ deduct_from_wallet_rejected(u, amt)
    \/ \E u \in Users, amt \in CashOutAmounts : Sequential /\ deduct_from_wallet(u, amt)
    \/ \E t \in BagToSet(inflight) : deduct_from_wallet_commit(t)
    \/ \E a \in AuctionIds, u \in Users : Sequential /\ process_wallet_payment_rejected(a, u)
    \/ \E a \in AuctionIds, u \in Users : Sequential /\ process_wallet_payment(a, u)
    \/ \E t \in BagToSet(inflight) : process_wallet_payment_commit(t)
    \/ Return

SeqWalletSpec == Init /\ [][SeqWalletNext]_vars

\* The top-up route, one request at a time, with every amount a user may submit.
TopUpNext ==
    \/ \E u \in Users, amt \in TopUpInputs : Sequential /\ wallet_topup_rejected(u, amt)
    \/ \E u \in Users, amt \in TopUpInputs : Sequential /\ wallet_topup(u, amt)
    \/ \E t \in BagToSet(inflight) : add_to_wallet_commit(t)
    \/ Return

TopUpSpec == Init /\ [][TopUpNext]_vars

\* ================================================================ claims
\* A step in which place_bid(a, bidder_id, bid_amount) is called: it is turned
\* down at once, or it passes the checks and goes on to its writes.
PlaceBidCall(a, bidder_id, bid_amount) ==
    place_bid_rejected(a, bidder_id, bid_amount) \/ place_bid(a, bidder_id, bid_amount)

NoWrites == UNCHANGED <<auctions, bids, notifications, inflight, wallet>>

\* The floor the claims speak of, read off the auction's row.
Floor(a) == auctions[a].current_bid + MINIMUM_BID_INCREMENT

\* C1: when the place_bid calls on an auction come one after another, a bid passes
\* the checks, and is recorded, only if its amount is at least the auction's
\* current_bid plus MINIMUM_BID_INCREMENT; a submission below that floor (on an
\* active auction, by another user than the seller) is rejected with an error
\* that carries exactly current_bid + MINIMUM_BID_INCREMENT, and writes nothing.
C1_BidFloor ==
    [][ /\ \A a \in AuctionIds :
            (Exists(a) /\ auctions[a].status = "active" /\ auctions[a].end_time > now)
            => \A amt \in {x \in BidAmounts : x < Floor(a)},
                  u \in Users \ {auctions[a].seller_id} :
                   PlaceBidCall(a, u, amt)
                   => /\ response' = Result("place_bid", FALSE, "bid_too_low", Floor(a))
                      /\ NoWrites
        /\ Len(bids') > Len(bids)
           => bids'[Len(bids')].bid_amount >= Floor(bids'[Len(bids')].auction_id) ]_vars

\* A second bid was turned down for being under the floor the first one raised.
C1_Witness ==
    /\ Len(bids) = 1
    /\ response = Result("place_bid", FALSE, "bid_too_low",
                         StartingBid + 2 * MINIMUM_BID_INCREMENT)

\* C2: under any interleaving of place_bid calls, every bid row exceeds every
\* earlier bid row of the same auction by at least MINIMUM_BID_INCREMENT.
C2_BidsIncrease ==
    \A i \in 1..Len(bids), j \in 1..Len(bids) :
        (i < j /\ bids[i].auction_id = bids[j].auction_id)
        => bids[j].bid_amount >= bids[i].bid_amount + MINIMUM_BID_INCREMENT

\* C3: an auction's cached current_bid is the highest amount among its bid rows,
\* or its starting_bid when it has none.
C3_CurrentBidIsHighest ==
    \A a \in 1..Len(auctions) :
        auctions[a].current_bid =
            IF BidsOn(a) = {} THEN auctions[a].starting_bid
            ELSE Max({bids[i].bid_amount : i \in BidsOn(a)})

\* C4: place_bid called with the auction's own seller as bidder fails for every
\* amount and writes nothing: no bid row, no current_bid, no notification; so no
\* bid row is ever the seller's.
C4_OwnAuction ==
    [][ /\ \A a \in AuctionIds, amt \in BidAmounts :
            (Exists(a) /\ PlaceBidCall(a, auctions[a].seller_id, amt))
            => /\ response'.op = "place_bid" /\ ~response'.ok
               /\ NoWrites
        /\ \A i \in 1..Len(bids') :
            bids'[i].bidder_id # auctions'[bids'[i].auction_id].seller_id ]_vars

\* The seller bid on their own active auction and got the own-auction error.
C4_Witness ==
    /\ response = Result("place_bid", FALSE, "own_auction", 0)
    /\ \E a \in 1..Len(auctions) : auctions[a].status = "active" /\ auctions[a].end_time > now

\* C5: place_bid passes its checks only while the auction exists, is active and
\* NOW() is strictly before its end_time; any other call is rejected as not
\* active and writes nothing (so too on an expired auction not yet swept).
C5_OnlyWhileActive ==
    [][ \A a \in AuctionIds :
            ~(Exists(a) /\ auctions[a].status = "active" /\ now < auctions[a].end_time)
            => \A u \in Users, amt \in BidAmounts :
                   PlaceBidCall(a, u, amt)
                   => /\ response' = Result("place_bid", FALSE, "not_active", 0)
                      /\ NoWrites ]_vars

\* A bid was rejected as not active while the only auction is expired and unswept.
C5_Witness ==
    /\ response = Result("place_bid", FALSE, "not_active", 0)
    /\ Len(auctions) = 1
    /\ auctions[1].status = "active" /\ auctions[1].end_time <= now

\* C6: once an auction is completed or sold, no operation changes its status,
\* winner_id or sold_price again.
C6_ClosedIsTerminal ==
    [][ \A a \in 1..Len(auctions) :
            auctions[a].status \in {"completed", "sold"}
            => /\ auctions'[a].status = auctions[a].status
               /\ auctions'[a].winner_id = auctions[a].winner_id
               /\ auctions'[a].sold_price = auctions[a].sold_price ]_vars

\* C7: when the operations come one after another, the sweep fetches exactly the
\* auctions that are active with end_time <= NOW(); when it has committed each
\* of them is completed and every other auction's row is as it was; with
\* nothing to fetch it returns success and writes nothing.
C7_SweepClosesExpired ==
    [][ /\ \A t \in BagToSet(inflight') :
            (t.op = "close_expired_auctions" /\ CopiesIn(t, inflight') > CopiesIn(t, inflight))
            => DOMAIN t.expired =
                   {a \in 1..Len(auctions) :
                       auctions[a].status = "active" /\ auctions[a].end_time <= now}
        /\ \A t \in BagToSet(inflight) :
            close_expired_auctions_commit(t)
            => /\ response' = Result("close_expired_auctions", TRUE, "", 0)
               /\ \A a \in 1..Len(auctions) :
                      IF a \in DOMAIN t.expired
                      THEN auctions'[a].status = "completed"
                      ELSE auctions'[a] = auctions[a]
        /\ (Ready /\ response' = Result("close_expired_auctions", TRUE, "", 0)
                  /\ inflight' = inflight)
           => /\ auctions' = auctions
              /\ \A a \in 1..Len(auctions) :
                     ~(auctions[a].status = "active" /\ auctions[a].end_time <= now) ]_vars

\* A sweep has returned success having closed one auction and left another,
\* which had not expired, active.
C7_Witness ==
    /\ response = Result("close_expired_auctions", TRUE, "", 0)
    /\ \E a, b \in 1..Len(auctions) :
           /\ auctions[a].status = "completed"
           /\ auctions[b].status = "active" /\ auctions[b].end_time > now

\* C8: the winner_id the sweep writes for an auction that has bids is the bidder
\* of a maximum-amount bid of that auction.
C8_SweepWinnerIsHighest ==
    [][ \A t \in BagToSet(inflight) :
            close_expired_auctions_commit(t)
            => \A a \in DOMAIN t.expired :
                   BidsOn(a) # {}
                   => auctions'[a].winner_id \in {bids[i].bidder_id : i \in HighestBids(a)} ]_vars

\* C9: overlapping sweeps close an expired auction once: committing a sweep
\* leaves an auction that a sweep has already closed (completed, no sold_price),
\* and the 'won' notifications of that auction, as they are.
C9_SweepClosesOnce ==
    [][ \A t \in BagToSet(inflight) :
            close_expired_auctions_commit(t)
            => \A a \in DOMAIN t.expired :
                   (auctions[a].status = "completed" /\ auctions[a].sold_price = NULL)
                   => /\ auctions'[a] = auctions[a]
                      /\ \A u \in Users :
                             CopiesIn(Notification(u, "won", a), notifications')
                                 = CopiesIn(Notification(u, "won", a), notifications) ]_vars

\* C10: an auction's winner_id is set exactly when its status is completed or
\* sold and it has at least one bid row.
C10_WinnerIffClosedWithBids ==
    \A a \in 1..Len(auctions) :
        auctions[a].winner_id # NULL
        <=> (auctions[a].status \in {"completed", "sold"} /\ BidsOn(a) # {})

\* C11: a bid that races with the closing of its auction loses: no bid row is
\* committed to an auction that has been closed (its status is no longer active,
\* its winner has been fixed), so a closed auction's winner stays the bidder of
\* the highest bid recorded for it.
C11_NoBidAfterClose ==
    [][ Len(bids') > Len(bids)
        => /\ auctions[bids'[Len(bids')].auction_id].status = "active"
           /\ auctions[bids'[Len(bids')].auction_id].winner_id = NULL ]_vars

\* An auction that has been closed and has no bid row: it had none when it closed.
ClosedWithoutBids(a) ==
    Exists(a) /\ auctions[a].status \in {"completed", "sold"} /\ BidsOn(a) = {}

\* No payment is or was due on the auction: it has no winner, it is in no
\* user's pending payments and it is not paid.
NoPaymentDue(a) ==
    Exists(a) => /\ auctions[a].winner_id = NULL
                 /\ \A u \in Users : a \notin get_pending_payments(u)
                 /\ auctions[a].payment_status # "paid"

SellNowCall(a) == sell_now_rejected(a) \/ sell_now(a)

EndNowCall(a, seller_id) ==
    end_auction_immediately_rejected(a, seller_id) \/ end_auction_immediately(a, seller_id)

\* C13: sell_now, and end_auction_immediately by the seller, on an active
\* auction that has no bid row fail with the no-bids error and write nothing:
\* the auction stays active with its winner_id, sold_price and end_time, and no
\* notification is added.
C13_NoBidsNoSale ==
    [][ \A a \in AuctionIds :
            (Exists(a) /\ auctions[a].status = "active" /\ BidsOn(a) = {})
            => /\ SellNowCall(a)
                  => /\ response' = Result("sell_now", FALSE, "no_bids", 0)
                     /\ NoWrites
               /\ EndNowCall(a, auctions[a].seller_id)
                  => /\ response' = Result("end_auction_immediately", FALSE, "no_bids", 0)
                     /\ NoWrites ]_vars

\* sell_now has just been turned down on an active auction without bids.
C13_Witness ==
    /\ response = Result("sell_now", FALSE, "no_bids", 0)
    /\ \E a \in 1..Len(auctions) : auctions[a].status = "active" /\ BidsOn(a) = {}

\* The auction a has just been closed, by a forced sale, with the given status:
\* its winner is the bidder of a highest bid and its sold_price that bid's
\* amount, its end_time is NOW(), the winner has one more 'won' notification
\* and nothing else of the auction, and no other auction, has changed.
ForcedSale(a, status) ==
    /\ \E i \in HighestBids(a) :
           /\ auctions' = [auctions EXCEPT ![a] =
                  [@ EXCEPT !.status = status, !.winner_id = bids[i].bidder_id,
                            !.sold_price = bids[i].bid_amount, !.end_time = now]]
           /\ notifications' =
                  notifications (+) SetToBag({Notification(bids[i].bidder_id, "won", a)})
    /\ bids' = bids

\* C14: when the operations come one after another, a successful sell_now
\* leaves the auction sold and a successful end_auction_immediately leaves it
\* completed; both set winner_id to the bidder of the highest bid, sold_price to
\* that bid's amount and end_time to NOW(), and add one 'won' notification for
\* that winner.
C14_ForcedSale ==
    [][ \A t \in BagToSet(inflight) :
            /\ sell_now_commit(t)
               => /\ response' = Result("sell_now", TRUE, "", 0)
                  /\ ForcedSale(t.auction_id, "sold")
            /\ end_auction_immediately_commit(t)
               => /\ response' = Result("end_auction_immediately", TRUE, "", 0)
                  /\ ForcedSale(t.auction_id, "completed") ]_vars

\* sell_now has succeeded on an auction with two bids of different bidders,
\* before the end the auction was created with, and the later, higher bid won.
C14_Witness ==
    /\ response = Result("sell_now", TRUE, "", 0)
    /\ Len(bids) = 2 /\ bids[1].auction_id = 1 /\ bids[2].auction_id = 1
    /\ bids[1].bidder_id # bids[2].bidder_id
    /\ auctions[1].status = "sold" /\ auctions[1].winner_id = bids[2].bidder_id
    /\ auctions[1].sold_price = bids[2].bid_amount
    /\ auctions[1].end_time = 0

\* C15: end_auction_immediately called with a seller_id that is not the
\* auction's seller fails as not found, and called by the seller on an auction
\* that is not active fails as not active; either way it writes nothing: the
\* auctions, the bids and the notifications are as they were.
C15_EndNowGuards ==
    [][ \A a \in AuctionIds, u \in Users :
            EndNowCall(a, u)
            => /\ ~(Exists(a) /\ auctions[a].seller_id = u)
                  => /\ response' = Result("end_auction_immediately", FALSE, "not_found", 0)
                     /\ NoWrites
               /\ (Exists(a) /\ auctions[a].seller_id = u /\ auctions[a].status # "active")
                  => /\ response' = Result("end_auction_immediately", FALSE, "not_active", 0)
                     /\ NoWrites ]_vars

\* The seller has just been turned down on an auction that is closed and has bids.
C15_Witness ==
    /\ response = Result("end_auction_immediately", FALSE, "not_active", 0)
    /\ \E a \in 1..Len(auctions) :
           auctions[a].status \in {"completed", "sold"} /\ BidsOn(a) # {}

\* The auction a has just been paid from the wallet: payment_status is paid, the
\* ledger has the buyer's payment_made row and the seller's payment_received
\* row, of one amount, and the seller has one more notification.
PaymentApplied(a) ==
    /\ auctions'[a].payment_status = "paid"
    /\ Len(wallet_transactions') = Len(wallet_transactions) + 2
    /\ LET made == wallet_transactions'[Len(wallet_transactions) + 1]
           received == wallet_transactions'[Len(wallet_transactions) + 2]
       IN /\ made.transaction_type = "payment_made" /\ made.reference_id = a
          /\ received.transaction_type = "payment_received" /\ received.reference_id = a
          /\ received.user_id = auctions[a].seller_id
          /\ made.amount = received.amount
    /\ notifications' =
           notifications (+) SetToBag({Notification(auctions[a].seller_id, "won", a)})

\* C16: process_wallet_payment is all or nothing: a call that returns success has
\* made every one of its writes, and a call that returns a failure, a store
\* error after the checks included, has left the balances, the ledger, the
\* auction and the notifications as they were.
C16_PaymentAtomic ==
    [][ (Ready /\ response'.op = "process_wallet_payment")
        => IF response'.ok
           THEN \E a \in 1..Len(auctions) : PaymentApplied(a)
           ELSE UNCHANGED <<auctions, wallet_balance, wallet_transactions, notifications>>
      ]_vars

\* The ledger rows of one type that refer to the auction a.
LedgerRows(transaction_type, a) ==
    {i \in 1..Len(wallet_transactions) :
        /\ wallet_transactions[i].transaction_type = transaction_type
        /\ wallet_transactions[i].reference_id = a}

\* C17: over any sequence or interleaving of payments, funds for an auction are
\* transferred at most once: at most one payment_made row and at most one
\* payment_received row refer to it.
C17_PaidOnce ==
    \A a \in AuctionIds :
        /\ Cardinality(LedgerRows("payment_made", a)) <= 1
        /\ Cardinality(LedgerRows("payment_received", a)) <= 1

\* The amount due on the auction a as the claims state it.
Due(a) == IF auctions[a].sold_price # NULL THEN auctions[a].sold_price
          ELSE auctions[a].current_bid

\* C18: when the operations come one after another, a successful
\* process_wallet_payment charges sold_price if it is set and current_bid
\* otherwise: the buyer's balance goes down and the seller's goes up by exactly
\* that amount, the ledger gets exactly the buyer's payment_made row and the
\* seller's payment_received row, both of that amount and referring to the
\* auction, and payment_status becomes paid.
C18_PaymentCharges ==
    [][ \A t \in BagToSet(inflight) :
            process_wallet_payment_commit(t)
            => LET a == t.auction_id
                   buyer == t.user_id
                   seller == auctions[a].seller_id
               IN /\ response' = Result("process_wallet_payment", TRUE, "", 0)
                  /\ wallet_balance'[buyer] = wallet_balance[buyer] - Due(a)
                  /\ wallet_balance'[seller] = wallet_balance[seller] + Due(a)
                  /\ wallet_transactions' = wallet_transactions \o
                         << [user_id |-> buyer, transaction_type |-> "payment_made",
                             amount |-> Due(a), balance_after |-> wallet_balance'[buyer],
                             reference_id |-> a],
                            [user_id |-> seller, transaction_type |-> "payment_received",
                             amount |-> Due(a), balance_after |-> wallet_balance'[seller],
                             reference_id |-> a] >>
                  /\ auctions'[a].payment_status = "paid" ]_vars

\* A payment has succeeded on an auction the sweep closed (no sold_price): the
\* winner, who had topped up 110, paid the current_bid of 105 to the seller.
C18_Witness ==
    /\ response = Result("process_wallet_payment", TRUE, "", 0)
    /\ Len(auctions) = 1
    /\ auctions[1].sold_price = NULL /\ auctions[1].current_bid = StartingBid + MINIMUM_BID_INCREMENT
    /\ auctions[1].payment_status = "paid"
    /\ wallet_balance[auctions[1].winner_id] = TopUp - StartingBid - MINIMUM_BID_INCREMENT
    /\ wallet_balance[auctions[1].seller_id] = StartingBid + MINIMUM_BID_INCREMENT

\* A step in which process_wallet_payment(a, buyer_id), or
\* mark_payment_complete(a, user_id), is called.
PaymentCall(a, buyer_id) ==
    process_wallet_payment_rejected(a, buyer_id) \/ process_wallet_payment(a, buyer_id)

MarkPaidCall(a, user_id) ==
    mark_payment_complete_rejected(a, user_id) \/ mark_payment_complete(a, user_id)

\* C19: process_wallet_payment by the winner with a balance below the amount
\* due fails with an error that carries exactly amount - balance, and writes
\* nothing: the balances, the ledger, the auction and the notifications are as
\* they were.
C19_Shortfall ==
    [][ \A a \in AuctionIds, u \in Users :
            (Exists(a) /\ auctions[a].winner_id = u /\ wallet_balance[u] < Due(a))
            => (PaymentCall(a, u)
                => /\ response' = Result("process_wallet_payment", FALSE, "insufficient",
                                         Due(a) - wallet_balance[u])
                   /\ NoWrites) ]_vars

\* The winner, with a balance of 5 left, has just been told that 100 more are needed.
C19_Witness ==
    /\ response = Result("process_wallet_payment", FALSE, "insufficient",
                         StartingBid + 2 * MINIMUM_BID_INCREMENT - TopUp + StartingBid)
    /\ \E a \in 1..Len(auctions) :
           /\ auctions[a].winner_id # NULL
           /\ wallet_balance[auctions[a].winner_id] = TopUp - StartingBid - MINIMUM_BID_INCREMENT
           /\ Due(a) = StartingBid + MINIMUM_BID_INCREMENT

\* C20: a payment attempt on an auction by a user who is not its winner_id
\* fails, through process_wallet_payment as through mark_payment_complete, and
\* writes nothing: no balance, no ledger row, no payment_status, no notification.
C20_OnlyWinnerPays ==
    [][ \A a \in AuctionIds, u \in Users :
            (Exists(a) /\ auctions[a].winner_id # u)
            => /\ PaymentCall(a, u)
                  => /\ response' = Result("process_wallet_payment", FALSE, "not_winner", 0)
                     /\ NoWrites
               /\ MarkPaidCall(a, u)
                  => /\ response' = Result("mark_payment_complete", FALSE, "no_row", 0)
                     /\ NoWrites ]_vars

\* mark_payment_complete has just turned down a user on an auction that is
\* closed, unpaid, and won by another user.
C20_Witness ==
    /\ response = Result("mark_payment_complete", FALSE, "no_row", 0)
    /\ Len(auctions) = 1
    /\ auctions[1].winner_id # NULL /\ auctions[1].payment_status = "pending"

\* A step in which deduct_from_wallet(user_id, amount) is called.
DeductCall(user_id, amount) ==
    deduct_from_wallet_rejected(user_id, amount) \/ deduct_from_wallet(user_id, amount)

\* C21: when the operations come one after another, deduct_from_wallet with an
\* amount above the user's balance fails with the insufficient-balance error,
\* leaves the balance as it was and appends no ledger row; with an amount of at
\* most the balance it is carried out and takes exactly the amount off the
\* balance, with one cash_out row of that amount.
C21_Deduct ==
    [][ /\ \A u \in Users, amt \in CashOutAmounts :
               DeductCall(u, amt)
               => IF amt > wallet_balance[u]
                  THEN /\ response' = Result("deduct_from_wallet", FALSE, "insufficient", 0)
                       /\ NoWrites
                  ELSE /\ deduct_from_wallet(u, amt)
                       /\ UNCHANGED wallet
        /\ \A t \in BagToSet(inflight) :
               deduct_from_wallet_commit(t)
               => /\ response' = Result("deduct_from_wallet", TRUE, "", 0)
                  /\ wallet_balance' = [wallet_balance EXCEPT
                                           ![t.user_id] = wallet_balance[t.user_id] - t.amount]
                  /\ wallet_transactions' = Append(wallet_transactions,
                         [user_id |-> t.user_id, transaction_type |-> "cash_out",
                          amount |-> t.amount,
                          balance_after |-> wallet_balance[t.user_id] - t.amount,
                          reference_id |-> NULL]) ]_vars

\* A user who cashed out the whole balance has just been refused a second
\* cash-out: the ledger holds the first one, the balance is still 0.
C21_Witness ==
    /\ response = Result("deduct_from_wallet", FALSE, "insufficient", 0)
    /\ \E i \in 1..Len(wallet_transactions) :
           /\ wallet_transactions[i].transaction_type = "cash_out"
           /\ wallet_transactions[i].balance_after = 0
           /\ wallet_balance[wallet_transactions[i].user_id] = 0

\* What a ledger row adds to its user's balance: credits count up, debits down.
Signed(row) ==
    IF row.transaction_type \in {"top_up", "payment_received"} THEN row.amount
    ELSE 0 - row.amount

\* The sum of what the first n ledger rows add to the balance of user_id.
RECURSIVE LedgerSum(_, _)
LedgerSum(user_id, n) ==
    IF n = 0 THEN 0
    ELSE LedgerSum(user_id, n - 1)
         + (IF wallet_transactions[n].user_id = user_id
            THEN Signed(wallet_transactions[n]) ELSE 0)

\* C22: under any interleaving of add_to_wallet, deduct_from_wallet and
\* process_wallet_payment no update is lost: every user's balance is the initial
\* balance, 0, plus the committed credits minus the committed debits of the ledger.
C22_NoLostUpdate ==
    \A u \in Users : wallet_balance[u] = LedgerSum(u, Len(wallet_transactions))

\* C23: every ledger row appended by add_to_wallet, deduct_from_wallet or
\* process_wallet_payment records as balance_after the balance its user has in
\* the state right after the commit that appended it, whatever the
\* interleaving.
C23_BalanceAfter ==
    [][ \A i \in (Len(wallet_transactions) + 1)..Len(wallet_transactions') :
            wallet_transactions'[i].balance_after
                = wallet_balance'[wallet_transactions'[i].user_id] ]_vars

\* A commit that overwrote another one has just appended its row: the ledger of
\* the user no longer adds up to the balance, and the row still carries it.
C23_Witness ==
    /\ response.op \in {"add_to_wallet", "deduct_from_wallet", "process_wallet_payment"}
    /\ response.ok
    /\ Len(wallet_transactions) >= 2
    /\ LET last == wallet_transactions[Len(wallet_transactions)]
       IN /\ last.balance_after = wallet_balance[last.user_id]
          /\ wallet_balance[last.user_id] # LedgerSum(last.user_id, Len(wallet_transactions))

\* C24: in every reachable state, under any sequence and interleaving of
\* top-ups, cash-outs and payments with positive amounts, every user's wallet
\* balance is non-negative.
C24_NonNegative ==
    \A u \in Users : wallet_balance[u] >= 0

\* A user whose committed debits exceed the committed credits (a cash-out and a
\* payment overlapped on one balance), with a balance that is not negative.
C24_Witness ==
    \E u \in Users :
        /\ LedgerSum(u, Len(wallet_transactions)) < 0
        /\ wallet_balance[u] >= 0

\* C25: a place_bid struck by a store error at any step rolls back all its
\* writes together and returns a database error: no bid row, no change of
\* current_bid and no outbid notification persists.
C25_BidRollsBack ==
    [][ \A t \in BagToSet(inflight) :
            place_bid_failed(t)
            => /\ response' = Result("place_bid", FALSE, "db_error", 0)
               /\ UNCHANGED <<auctions, bids, notifications>> ]_vars

\* The users who hold the highest bid on the auction a; none before the first bid.
HighestBidders(a) == {bids[i].bidder_id : i \in HighestBids(a)}

\* C26: when the operations come one after another, a successful place_bid
\* emits exactly one 'outbid' notification, to the previous highest bidder, if
\* and only if the auction had a highest bidder before the bid and that user is
\* not the new bidder; on the first bid, and when the bidder raises their own
\* highest bid, it emits no notification.
C26_Outbid ==
    [][ \A t \in BagToSet(inflight) :
            place_bid_commit(t)
            => /\ response' = Result("place_bid", TRUE, "", 0)
               /\ IF HighestBidders(t.auction_id) # {}
                     /\ t.user_id \notin HighestBidders(t.auction_id)
                  THEN \E h \in HighestBidders(t.auction_id) :
                           notifications' = notifications
                               (+) SetToBag({Notification(h, "outbid", t.auction_id)})
                  ELSE notifications' = notifications ]_vars

\* The second bid on an auction, by another user than the first, has just
\* succeeded: the first bidder has one 'outbid' notification, nobody else has one.
C26_Witness ==
    /\ response = Result("place_bid", TRUE, "", 0)
    /\ Len(bids) = 2
    /\ bids[1].auction_id = bids[2].auction_id
    /\ bids[1].bidder_id # bids[2].bidder_id
    /\ {n \in BagToSet(notifications) : n.type = "outbid"}
           = {Notification(bids[1].bidder_id, "outbid", bids[1].auction_id)}
    /\ CopiesIn(Notification(bids[1].bidder_id, "outbid", bids[1].auction_id),
                notifications) = 1

\* C27: place_bid checks not-active, then own-auction, then bid-too-low, and
\* the first failure wins: on an auction that is closed or past its end_time the
\* seller, like anyone bidding too low, gets the not-active error; on their own
\* active auction the seller gets the own-auction error also when the amount is
\* below the floor.
C27_CheckOrder ==
    [][ \A a \in AuctionIds, u \in Users, amt \in BidAmounts :
            (Exists(a) /\ PlaceBidCall(a, u, amt)
                /\ (u = auctions[a].seller_id \/ amt < Floor(a)))
            => response' =
                  IF ~(auctions[a].status = "active" /\ now < auctions[a].end_time)
                  THEN Result("place_bid", FALSE, "not_active", 0)
                  ELSE IF u = auctions[a].seller_id
                  THEN Result("place_bid", FALSE, "own_auction", 0)
                  ELSE Result("place_bid", FALSE, "bid_too_low", Floor(a)) ]_vars

\* The seller has just got the own-auction error on their active auction whose
\* current_bid is so high that every amount on offer is below the floor.
C27_Witness ==
    /\ response = Result("place_bid", FALSE, "own_auction", 0)
    /\ Len(auctions) = 1
    /\ auctions[1].status = "active" /\ now < auctions[1].end_time
    /\ \A amt \in BidAmounts : amt < Floor(1)

\* The seller's payment notification of the auction a has been added.
SellerNotified(a) ==
    notifications' = notifications
        (+) SetToBag({Notification(auctions[a].seller_id, "won", a)})

\* C28, as stated: every mark_payment_complete by the auction's winner sets
\* payment_status to paid and notifies the seller, and leaves every wallet
\* balance and the ledger as they were.
C28_MarkPaidAlways ==
    [][ \A a \in AuctionIds, u \in Users :
            (Exists(a) /\ auctions[a].winner_id = u /\ MarkPaidCall(a, u))
            => /\ auctions'[a].payment_status = "paid"
               /\ SellerNotified(a)
               /\ UNCHANGED wallet ]_vars

\* C28, amended: mark_payment_complete by the auction's winner on an auction
\* that is not yet paid sets payment_status to paid, notifies the seller once
\* and succeeds; on an auction that is already paid it fails and writes
\* nothing.  Either way every wallet balance and the ledger stay as they were.
C28_MarkPaid ==
    [][ \A a \in AuctionIds, u \in Users :
            (Exists(a) /\ auctions[a].winner_id = u /\ MarkPaidCall(a, u))
            => /\ UNCHANGED wallet
               /\ IF auctions[a].payment_status # "paid"
                  THEN /\ auctions' = [auctions EXCEPT ![a].payment_status = "paid"]
                       /\ SellerNotified(a)
                       /\ response' = Result("mark_payment_complete", TRUE, "", 0)
                       /\ UNCHANGED <<bids, inflight>>
                  ELSE /\ response' = Result("mark_payment_complete", FALSE, "no_row", 0)
                       /\ NoWrites ]_vars

\* mark_payment_complete has just succeeded for a winner who holds a top-up:
\* the auction is paid, the seller has one payment notification, and the
\* balance and the one-row ledger are those of the top-up.
C28_Witness ==
    /\ response = Result("mark_payment_complete", TRUE, "", 0)
    /\ Len(auctions) = 1
    /\ auctions[1].payment_status = "paid"
    /\ auctions[1].winner_id # NULL
    /\ CopiesIn(Notification(auctions[1].seller_id, "won", 1), notifications) = 1
    /\ wallet_balance[auctions[1].winner_id] = TopUp
    /\ wallet_balance[auctions[1].seller_id] = 0
    /\ Len(wallet_transactions) = 1

\* C29: in every reachable state an auction whose payment_status is paid has
\* its winner_id set.
C29_PaidHasWinner ==
    \A a \in 1..Len(auctions) :
        auctions[a].payment_status = "paid" => auctions[a].winner_id # NULL

\* A paid auction, closed as completed, next to the payment notification of its
\* seller.
C29_Witness ==
    \E a \in 1..Len(auctions) :
        /\ auctions[a].payment_status = "paid"
        /\ auctions[a].status = "completed"
        /\ auctions[a].winner_id \in Users
        /\ CopiesIn(Notification(auctions[a].seller_id, "won", a), notifications) >= 1

\* C30: in every reachable state every auction has current_bid >= starting_bid.
C30_CurrentBidAtLeastStart ==
    \A a \in 1..Len(auctions) : auctions[a].current_bid >= auctions[a].starting_bid

\* An auction whose current_bid an overlapping lower bid has overwritten: it is
\* below the highest bid row, and still above the starting_bid.
C30_Witness ==
    \E a \in 1..Len(auctions) :
        /\ \E i \in BidsOn(a) : bids[i].bid_amount > auctions[a].current_bid
        /\ auctions[a].current_bid > auctions[a].starting_bid

\* C31: a successful create_auction appends an auction that is active, has no
\* winner and has current_bid = starting_bid, and adds exactly one
\* 'new_auction' notification for every user other than the seller and none
\* for the seller; no other notification changes.
C31_CreateAuction ==
    [][ \A seller \in Sellers, d \in Durations :
            create_auction(seller, StartingBid, d)
            => LET id == Len(auctions) + 1
               IN /\ response' = Result("create_auction", TRUE, "", 0)
                  /\ Len(auctions') = id
                  /\ \A a \in 1..Len(auctions) : auctions'[a] = auctions[a]
                  /\ auctions'[id].seller_id = seller
                  /\ auctions'[id].status = "active"
                  /\ auctions'[id].winner_id = NULL
                  /\ auctions'[id].starting_bid = StartingBid
                  /\ auctions'[id].current_bid = auctions'[id].starting_bid
                  /\ \A u \in Users :
                         CopiesIn(Notification(u, "new_auction", id), notifications')
                             = IF u = seller THEN 0 ELSE 1
                  /\ \A n \in BagToSet(notifications') \cup BagToSet(notifications) :
                         (n.type # "new_auction" \/ n.ref # id)
                         => CopiesIn(n, notifications') = CopiesIn(n, notifications) ]_vars

\* The second auction has just been created while the first one has a bid and
\* an outbid bidder: it is active at its starting bid, the two other users
\* have its notification, the seller has none.
C31_Witness ==
    /\ response = Result("create_auction", TRUE, "", 0)
    /\ Len(auctions) = 2
    /\ auctions[2].status = "active" /\ auctions[2].winner_id = NULL
    /\ auctions[2].current_bid = StartingBid
    /\ NumOutbid >= 1
    /\ \A u \in Users :
           CopiesIn(Notification(u, "new_auction", 2), notifications)
               = IF u = auctions[2].seller_id THEN 0 ELSE 1

\* C32: when close_expired_auctions is called again and again, every active
\* auction whose end_time has passed is eventually closed.
C32_ExpiredEventuallyClosed ==
    \A a \in AuctionIds :
        Expired(a) ~> (Exists(a) /\ auctions[a].status # "active")

\* The ledger rows of user_id that the step appends, as positions in the new ledger.
NewRows(user_id) ==
    {i \in (Len(wallet_transactions) + 1)..Len(wallet_transactions') :
        wallet_transactions'[i].user_id = user_id}

\* C33: when the operations come one after another, every change of a user's
\* wallet_balance comes, in the same step, with exactly one appended ledger row
\* of that user whose signed amount is the change; ledger rows are never
\* modified or removed; so every user's balance is the sum of the signed amounts
\* of that user's ledger rows.
C33_LedgerAccounts ==
    [][ /\ Len(wallet_transactions') >= Len(wallet_transactions)
        /\ \A i \in 1..Len(wallet_transactions) :
               wallet_transactions'[i] = wallet_transactions[i]
        /\ \A u \in Users :
               /\ wallet_balance'[u] # wallet_balance[u]
                  => /\ Cardinality(NewRows(u)) = 1
                     /\ \A i \in NewRows(u) :
                            Signed(wallet_transactions'[i])
                                = wallet_balance'[u] - wallet_balance[u]
               /\ wallet_balance'[u] = wallet_balance[u] => NewRows(u) = {}
               /\ wallet_balance'[u] = LedgerSum(u, Len(wallet_transactions))' ]_vars

\* A payment has just moved money between two wallets after top-ups and a
\* cash-out: rows of all four types, and every balance is the sum of its rows.
C33_Witness ==
    /\ response = Result("process_wallet_payment", TRUE, "", 0)
    /\ {wallet_transactions[i].transaction_type : i \in 1..Len(wallet_transactions)}
           = {"top_up", "cash_out", "payment_made", "payment_received"}
    /\ wallet_transactions[Len(wallet_transactions)].transaction_type = "payment_received"
    /\ \A u \in Users : wallet_balance[u] = LedgerSum(u, Len(wallet_transactions))
    /\ \E u, v \in Users : u # v /\ wallet_balance[u] > 0 /\ wallet_balance[v] > 0

\* A step in which the top-up route is requested with the amount.
TopUpCall(user_id, amount) ==
    wallet_topup_rejected(user_id, amount) \/ wallet_topup(user_id, amount)

\* C34: when the requests come one after another, wallet_topup turns down an
\* amount below 10 or above 1,000,000 without calling add_to_wallet, and the
\* balances and the ledger stay as they were; an amount from 10 to 1,000,000
\* goes to add_to_wallet, which raises the user's balance by exactly the amount.
C34_TopUpLimits ==
    [][ /\ \A u \in Users, amt \in TopUpInputs :
               TopUpCall(u, amt)
               => IF amt < 10 \/ amt > 1000000
                  THEN /\ response'.op = "wallet_topup" /\ ~response'.ok
                       /\ NoWrites
                  ELSE \E t \in BagToSet(inflight') :
                           /\ t.op = "add_to_wallet" /\ t.user_id = u /\ t.amount = amt
                           /\ inflight' = inflight (+) SetToBag({t})
        /\ \A t \in BagToSet(inflight) :
               add_to_wallet_commit(t)
               => /\ t.amount >= 10 /\ t.amount <= 1000000
                  /\ response' = Result("add_to_wallet", TRUE, "", 0)
                  /\ wallet_balance' = [wallet_balance EXCEPT
                                           ![t.user_id] = wallet_balance[t.user_id] + t.amount]
      ]_vars

\* A user who topped up the smallest and the largest amount allowed has just
\* been refused one unit more than the largest.
C34_Witness ==
    /\ response = Result("wallet_topup", FALSE, "above_maximum", 0)
    /\ \E u \in Users : wallet_balance[u] = 10 + 1000000
    /\ Len(wallet_transactions) = 2

\* C35: an operation that cannot obtain its connection returns a result, a
\* failure or, from get_wallet_balance, the default balance 0, instead of
\* raising, and changes no state.
C35_NoConnection ==
    [][ \A op \in CoreOperations :
            connection_failed(op)
            => /\ response'.op = op
               /\ response'.err # "raised"
               /\ IF op = "get_wallet_balance"
                  THEN response'.min_bid = 0
                  ELSE ~response'.ok
               /\ NoWrites
               /\ now' = now ]_vars

\* place_bid has just failed for want of a connection on an auction that is
\* active and has a bid: the bid and the current_bid are as they were.
C35_Witness ==
    /\ response = Result("place_bid", FALSE, "connection_failed", 0)
    /\ Len(auctions) = 1 /\ Len(bids) = 1
    /\ auctions[1].status = "active" /\ now < auctions[1].end_time
    /\ auctions[1].current_bid = bids[1].bid_amount

\* The notifications of a user about an auction, as a bag.
NotificationsTo(bag, user_id, a) ==
    [n \in {x \in BagToSet(bag) : x.user_id = user_id /\ x.ref = a} |-> CopiesIn(n, bag)]

\* C36: a successful request of the seller to sell now adds exactly one
\* notification for the winner, of type 'won'.
C36_OneWonNotification ==
    [][ \A t \in BagToSet(inflight) :
            sell_now_route_commit(t)
            => NotificationsTo(notifications', auctions'[t.auction_id].winner_id, t.auction_id)
               = NotificationsTo(notifications, auctions'[t.auction_id].winner_id, t.auction_id)
                 (+) SetToBag({Notification(auctions'[t.auction_id].winner_id, "won",
                                            t.auction_id)}) ]_vars

\* The seller's request has just succeeded on an auction with a bid, and the
\* winner holds a 'won' notification for it.
C36_Witness ==
    /\ response = Result("sell_now_route", TRUE, "", 0)
    /\ Len(auctions) >= 1 /\ auctions[1].status = "sold"
    /\ auctions[1].winner_id # NULL
    /\ BagIn(Notification(auctions[1].winner_id, "won", 1), notifications)

\* C37: once the end_time of an active auction has passed, place_bid on it is
\* refused from then on, whatever the bidder and the amount, also after any
\* step of the seller's that comes before the sweep closes the auction.
C37_ExpiredStaysClosedToBids ==
    [][ \A a \in AuctionIds :
            Expired(a)
            => \A u \in Users, amt \in BidAmounts : PlaceBidError(a, u, amt)' # "" ]_vars

\* C38: the amount a successful process_wallet_payment charges is the highest
\* bid_amount recorded for the auction, however the bids and the closing
\* operations before it overlapped.
C38_ChargesHighestBid ==
    [][ \A t \in BagToSet(inflight) :
            process_wallet_payment_commit(t)
            => /\ BidsOn(t.auction_id) # {}
               /\ t.amount = Max({bids[i].bid_amount : i \in BidsOn(t.auction_id)}) ]_vars

\* The sum of f over the set S.
RECURSIVE SumOver(_, _)
SumOver(f, S) ==
    IF S = {} THEN 0
    ELSE LET x == CHOOSE y \in S : TRUE IN f[x] + SumOver(f, S \ {x})

\* The money in all the wallets.
TotalBalance == SumOver(wallet_balance, Users)

\* A step in which a call of process_wallet_payment ends: turned down by a
\* check, committed, or rolled back after a store error.
PaymentEnds(a, buyer_id) ==
    \/ process_wallet_payment_rejected(a, buyer_id)
    \/ \E t \in BagToSet(inflight) :
           /\ t.auction_id = a /\ t.user_id = buyer_id
           /\ process_wallet_payment_commit(t) \/ process_wallet_payment_failed(t)

\* C39: when the operations come one after another, process_wallet_payment
\* leaves the sum of all wallet balances as it was, and the balance of every
\* user other than the buyer and the auction's seller as it was.
C39_ConservesMoney ==
    [][ \A a \in AuctionIds, buyer \in Users :
            PaymentEnds(a, buyer)
            => /\ TotalBalance' = TotalBalance
               /\ \A u \in Users :
                      (Exists(a) /\ u \in {buyer, auctions[a].seller_id})
                      \/ wallet_balance'[u] = wallet_balance[u] ]_vars

\* A payment has succeeded while a third user holds a top-up: the winner's
\* money has moved to the seller, the third user's balance and the total of
\* two top-ups are as before.
C39_Witness ==
    /\ response = Result("process_wallet_payment", TRUE, "", 0)
    /\ Len(auctions) = 1 /\ auctions[1].payment_status = "paid"
    /\ wallet_balance[auctions[1].seller_id] > 0
    /\ \E u \in Users \ {auctions[1].seller_id, auctions[1].winner_id} :
           wallet_balance[u] = TopUp
    /\ TotalBalance = 2 * TopUp

\* C40: in every reachable state, the winner_id of an auction, when set, is
\* the bidder_id of a bid on that auction, and is not the auction's seller.
C40_WinnerHasBid ==
    \A a \in 1..Len(auctions) :
        auctions[a].winner_id # NULL
        => /\ \E i \in BidsOn(a) : bids[i].bidder_id = auctions[a].winner_id
           /\ auctions[a].winner_id # auctions[a].seller_id

\* An auction on which two users have bid is closed with one of them as winner.
C40_Witness ==
    /\ Len(auctions) >= 1
    /\ auctions[1].status # "active"
    /\ auctions[1].winner_id # NULL
    /\ Cardinality({bids[i].bidder_id : i \in BidsOn(1)}) = 2
====
